---- MODULE Spec2Model ----
(***************************************************************************)
(* Model of src/utils/date.ts of the blog: the module-level default        *)
(* formatter dateFormat, getFormattedDate (default path and per-call       *)
(* override path) and getAge.                                              *)
(*                                                                         *)
(* Time values.  ECMAScript time values are integer milliseconds since the *)
(* epoch, up to 8.64e15 in magnitude, which does not fit the model         *)
(* checker's 32-bit integers.  A time value is therefore kept as a pair    *)
(* <<u, r>> that stands for u * MsPerUnit + r milliseconds, with           *)
(* 0 <= r < MsPerUnit.  MsPerUnit is 216000 ms, the greatest common        *)
(* divisor of a day (400 units) and of the year length 31556952000 ms of   *)
(* getAge (146097 units), so both are whole numbers of units while single  *)
(* milliseconds stay representable.  The quotient of getAge stays below    *)
(* 2^19 for every time value, where rounding to a double moves it by at    *)
(* most 2^-35 < 1/31556952000, so its floor in doubles is the integer      *)
(* floor.                                                                  *)
(*                                                                         *)
(* Spec runs the module's evaluation and the getFormattedDate calls;       *)
(* SpecAge runs the evaluation, the wall clock and the getAge calls.       *)
(***************************************************************************)
EXTENDS Integers, Sequences, FiniteSets, TLC

VARIABLES
    tz,            \* host: local time zone offset, minutes east of UTC
    lenientParse,  \* host: whether Date.parse accepts strings outside the ECMAScript format
    siteConfig,    \* the imported siteConfig object (its date member)
    moduleState,   \* evaluation of date.ts: "unloaded", "loaded", or the error it threw
    dateFormat,    \* the module-level const dateFormat (NoFormatter before load)
    constructions, \* number of times the default formatter has been constructed
    lastCall,      \* the latest getFormattedDate call: arguments, path and outcome
    probe,         \* the first getFormattedDate call, kept for comparison
    now,           \* the wall clock read by Date.now()
    s1,            \* an earlier getAge sample [t, age]
    s2,            \* the latest getAge sample [t, age]
    frames         \* the getFormattedDate calls in progress, one frame per caller

vars == <<tz, lenientParse, siteConfig, moduleState, dateFormat, constructions,
          lastCall, probe, now, s1, s2, frames>>

\* the time value of an invalid date (no normalised pair has a negative remainder)
NaN == <<0, -1>>
\* no getAge sample taken yet
NoSample == [taken |-> FALSE, t |-> <<0, 0>>, age |-> 0]

(***************************************************************************)
(* Bounds of the model.                                                    *)
(***************************************************************************)
\* getAge is sampled around the period boundaries -MaxPeriodsBack .. MaxPeriodsAhead
MaxPeriodsBack == 1
MaxPeriodsAhead == 2
\* number of distinct valid instants offered to getFormattedDate
MaxInstants == 2
\* calendar anniversaries of the anchor that the clock walks through
MaxAnniversary == 38
\* callers whose getFormattedDate calls may be in progress at the same time
MaxCallers == 2

(***************************************************************************)
(* Millisecond arithmetic on <<u, r>> pairs.                               *)
(***************************************************************************)
MsPerUnit == 216000
UnitsPerDay == 400
MsPerDay == UnitsPerDay * MsPerUnit

\* the divisor literal 31556952000 of getAge, in units (31556952000 = 146097 * 216000)
YearUnits == 31556952 \div 216

Ms(u, r) == <<u + (r \div MsPerUnit), r % MsPerUnit>>
MsAdd(a, b) == Ms(a[1] + b[1], a[2] + b[2])
MsSub(a, b) == Ms(a[1] - b[1], a[2] - b[2])
MsLess(a, b) == a[1] < b[1] \/ (a[1] = b[1] /\ a[2] < b[2])
MsLeq(a, b) == a = b \/ MsLess(a, b)
MsOfDays(d) == Ms(d * UnitsPerDay, 0)
MsOfMinutes(m) == Ms(0, m * 60000)
\* Math.floor(a / (p units)): r < MsPerUnit never reaches the next multiple
MsFloorDivUnits(a, p) == a[1] \div p

(***************************************************************************)
(* Calendar: ECMAScript MakeDay / YearFromTime, MonthFromTime,             *)
(* DateFromTime on the proleptic Gregorian calendar (months 1..12).        *)
(***************************************************************************)
DaysFromCivil(y, m, d) ==
    LET yy == IF m <= 2 THEN y - 1 ELSE y
        era == yy \div 400
        yoe == yy - era * 400
        mp == IF m > 2 THEN m - 3 ELSE m + 9
        doy == ((153 * mp + 2) \div 5) + d - 1
        doe == yoe * 365 + (yoe \div 4) - (yoe \div 100) + doy
    IN  era * 146097 + doe - 719468

CivilFromDays(z) ==
    LET zz == z + 719468
        era == zz \div 146097
        doe == zz - era * 146097
        yoe == (doe - (doe \div 1460) + (doe \div 36524) - (doe \div 146096)) \div 365
        doy == doe - (365 * yoe + (yoe \div 4) - (yoe \div 100))
        mp == (5 * doy + 2) \div 153
        d == doy - ((153 * mp + 2) \div 5) + 1
        m == IF mp < 10 THEN mp + 3 ELSE mp - 9
    IN  [year |-> IF m <= 2 THEN yoe + era * 400 + 1 ELSE yoe + era * 400,
         month |-> m, day |-> d]

\* LocalTime(t) = t + LocalTZA and UTC(t) = t - LocalTZA, for a fixed-offset zone
LocalTime(t, zone) == MsAdd(t, MsOfMinutes(zone))
UTC(t, zone) == MsSub(t, MsOfMinutes(zone))

\* new Date(year, monthIndex, day): local midnight of that civil day, as a UTC time value
NewDateLocal(year, monthIndex, day, zone) ==
    UTC(MsOfDays(DaysFromCivil(year, monthIndex + 1, day)), zone)

(***************************************************************************)
(* getAge                                                                  *)
(***************************************************************************)
\* const birthday = new Date(2003, 8, 29)
birthday(zone) == NewDateLocal(2003, 8, 29, zone)

\* a plausible slip: Math.trunc (round toward zero) instead of Math.floor
getAgeTrunc(t, zone) ==
    LET diff == MsSub(t, birthday(zone))
    IN  IF diff[1] < 0 /\ (diff[1] % YearUnits # 0 \/ diff[2] # 0)
        THEN MsFloorDivUnits(diff, YearUnits) + 1
        ELSE MsFloorDivUnits(diff, YearUnits)

\* a plausible slip: a 365-day year (31536000000 ms) as the divisor
getAge365(t, zone) == MsFloorDivUnits(MsSub(t, birthday(zone)), 365 * UnitsPerDay)

\* a plausible slip: the distance to the anchor, Math.abs of the difference
getAgeAbs(t, zone) ==
    LET diff == MsSub(t, birthday(zone))
    IN  IF MsLess(diff, <<0, 0>>)
        THEN MsFloorDivUnits(MsSub(<<0, 0>>, diff), YearUnits)
        ELSE MsFloorDivUnits(diff, YearUnits)

\* a plausible slip: Math.round instead of Math.floor
getAgeRound(t, zone) ==
    MsFloorDivUnits(MsAdd(MsSub(t, birthday(zone)),
                          Ms(YearUnits \div 2, (YearUnits % 2) * (MsPerUnit \div 2))),
                    YearUnits)

\* Math.floor((Date.now() - birthday.getTime()) / 31556952000), with Date.now() = t
getAge(t, zone) == MsFloorDivUnits(MsSub(t, birthday(zone)), YearUnits)

\* the instant k whole periods of 31556952000 ms after the anchor
PeriodBoundary(k, zone) == MsAdd(birthday(zone), Ms(k * YearUnits, 0))

\* the host's time zones (fixed offsets, minutes east of UTC)
TimeZones == {-300, 120}

\* the wall-clock readings offered to Date.now(): one millisecond before, at and
\* after each period boundary in range, the middle of each period, and the local
\* midnights of 2025-09-28 and 2025-09-29
ClockOffsets == {Ms(0, -1), Ms(0, 0), Ms(0, 1), Ms(YearUnits \div 2, 0)}
ClockValues(zone) ==
    {MsAdd(PeriodBoundary(k, zone), o) :
        k \in (0 - MaxPeriodsBack)..MaxPeriodsAhead, o \in ClockOffsets}
    \cup {NewDateLocal(2025, 8, 28, zone), NewDateLocal(2025, 8, 29, zone)}
ClockValuesIn == [zone \in TimeZones |-> ClockValues(zone)]

\* the local midnights of each calendar anniversary of 2003-09-29 and of the day
\* before it
AnniversaryClock(zone) ==
    {NewDateLocal(2003 + n, 8, d, zone) : n \in 1..MaxAnniversary, d \in {28, 29}}
\* the midnight that follows midnight t in that walk (none after the last one)
AnniversaryAfter(t, zone) ==
    {u \in AnniversaryClock(zone) :
        /\ MsLess(t, u)
        /\ \A v \in AnniversaryClock(zone) : ~(MsLess(t, v) /\ MsLess(v, u))}
AnniversaryAfterIn ==
    [zone \in TimeZones |-> [t \in AnniversaryClock(zone) |-> AnniversaryAfter(t, zone)]]

(***************************************************************************)
(* Date inputs of getFormattedDate: string | number | Date.                *)
(***************************************************************************)
MsPerHour == 60 * 60000
\* ECMAScript MakeTime and MakeDate
MakeTime(h, mi, sec, ms) == h * MsPerHour + mi * 60000 + sec * 1000 + ms
MakeDate(day, time) == Ms(day * UnitsPerDay, time)

\* the calendar and clock fields of time value t read at an offset of off minutes
\* (what Date.prototype.toISOString prints, for off = 0)
FieldsOf(t, off) ==
    LET local == LocalTime(t, off)
        day == local[1] \div UnitsPerDay
        inDay == (local[1] % UnitsPerDay) * MsPerUnit + local[2]
        c == CivilFromDays(day)
    IN  [y |-> c.year, mo |-> c.month, d |-> c.day,
         h |-> inDay \div MsPerHour, mi |-> (inDay % MsPerHour) \div 60000,
         sec |-> (inDay % 60000) \div 1000, ms |-> inDay % 1000]

\* A number argument: a finite integer within the time-value range, or NaN
NumberInput(t) == [kind |-> "number", class |-> "finite", value |-> t, denotes |-> t]
NumberNaN == [kind |-> "number", class |-> "nan", value |-> NaN, denotes |-> NaN]
\* A Date argument with time value t
DateInput(t) == [kind |-> "date", tv |-> t, denotes |-> t]
\* A string argument, kept as the fields its text spells out.  fmt names its syntax:
\*   "utc"    YYYY-MM-DDTHH:mm:ss.sssZ          (ECMAScript date-time string format)
\*   "offset" YYYY-MM-DDTHH:mm:ss.sss+HH:mm     (ECMAScript date-time string format)
\*   "local"  YYYY-MM-DDTHH:mm:ss.sss           (ECMAScript format, read as local time)
\*   "basic"  YYYYMMDDTHHmmss.sssZ              (ISO 8601 basic format, not ECMAScript's)
\*   "text"   not a date at all
\* denotes is the instant the text stands for; the code never reads it.
StringInput(t, fmt, off) ==
    [kind |-> "string", fmt |-> fmt, off |-> off, fields |-> FieldsOf(t, off), denotes |-> t]
StringText ==
    [kind |-> "string", fmt |-> "text", off |-> 0, fields |-> FieldsOf(<<0, 0>>, 0), denotes |-> NaN]

\* ECMAScript TimeClip(ToNumber(v))
TimeClip(v) == IF v.class = "finite" THEN v.value ELSE NaN

\* Date.parse: the ECMAScript date-time string format is parsed as specified; any
\* other text is left to the host, which either recognises it or yields NaN.
DateParse(v, zone, lenient) ==
    LET f == v.fields
        t == MakeDate(DaysFromCivil(f.y, f.mo, f.d), MakeTime(f.h, f.mi, f.sec, f.ms))
    IN  CASE v.fmt = "utc" -> t
          [] v.fmt = "offset" -> UTC(t, v.off)
          [] v.fmt = "local" -> UTC(t, zone)
          [] v.fmt = "basic" -> IF lenient THEN t ELSE NaN
          [] OTHER -> NaN

\* new Date(date).getTime()
NewDate(v, zone, lenient) ==
    CASE v.kind = "date" -> v.tv
      [] v.kind = "string" -> DateParse(v, zone, lenient)
      [] OTHER -> TimeClip(v)

(***************************************************************************)
(* The locale formatting primitives: Intl.DateTimeFormat and               *)
(* Date.prototype.toLocaleDateString.                                      *)
(***************************************************************************)
Absent == "undefined"
EmptyOptions == [k \in {} |-> Absent]
DateKeys == {"weekday", "year", "month", "day"}
TimeKeys == {"hour", "minute", "second"}
\* options[k], undefined when the property is missing
Get(options, k) == IF k \in DOMAIN options THEN options[k] ELSE Absent

Return(v) == [type |-> "return", value |-> v]
Throw(e) == [type |-> "throw", value |-> e]

SupportedLocales == {"en-US", "en-GB"}

\* ECMA-402 ToDateTimeOptions: when none of the required fields is set, the
\* defaults year, month, day = "numeric" are filled in.
ToDateTimeOptions(options, required, defaults) ==
    LET looked == (IF required \in {"date", "any"} THEN DateKeys ELSE {})
                  \cup (IF required \in {"time", "any"} THEN TimeKeys ELSE {})
        needDefaults == \A k \in looked : Get(options, k) = Absent
        set == {k \in DOMAIN options : options[k] # Absent}
    IN  IF needDefaults /\ defaults \in {"date", "all"}
        THEN [k \in set \cup {"year", "month", "day"} |->
                 IF k \in {"year", "month", "day"} THEN "numeric" ELSE options[k]]
        ELSE [k \in set |-> options[k]]

\* the values GetOption accepts for the fields of this model
Styles ==
    [k \in DateKeys \cup TimeKeys |->
        IF k = "month" THEN {"numeric", "2-digit", "short", "long", "narrow"}
        ELSE IF k = "weekday" THEN {"short", "long", "narrow"}
        ELSE {"numeric", "2-digit"}]
\* no field of the options holds a value its GetOption rejects
AcceptedOptions(options) ==
    \A k \in DOMAIN options : options[k] = Absent \/ options[k] \in Styles[k]

\* new Intl.DateTimeFormat(locale, options): the formatter keeps its own resolved
\* copy of the options; an ill-formed locale tag or a rejected option value is a
\* RangeError.
NewDateTimeFormat(locale, options) ==
    IF locale \notin SupportedLocales \/ ~AcceptedOptions(options)
    THEN Throw("RangeError")
    ELSE Return([locale |-> locale, fields |-> ToDateTimeOptions(options, "any", "date")])

MonthLong ==
    <<"January", "February", "March", "April", "May", "June", "July", "August",
      "September", "October", "November", "December">>
MonthShort ==
    <<"Jan", "Feb", "Mar", "Apr", "May", "Jun", "Jul", "Aug", "Sep", "Oct", "Nov", "Dec">>
Pad2(n) == IF n < 10 THEN "0" \o ToString(n) ELSE ToString(n)
Numeric(style, n) ==
    CASE style = "numeric" -> ToString(n)
      [] style = "2-digit" -> Pad2(n % 100)
      [] OTHER -> ""
MonthText(style, m) ==
    CASE style = "long" -> MonthLong[m]
      [] style = "short" -> MonthShort[m]
      [] OTHER -> Numeric(style, m)
Join(a, sep, b) == IF a = "" THEN b ELSE IF b = "" THEN a ELSE a \o sep \o b

\* the formatter's output for a valid time value: the local calendar day, each
\* requested field in its style, in the locale's order.  Only year, month and day
\* are rendered: the option maps of this model set no other field.
FormatFields(fmtr, t, zone) ==
    LET c == CivilFromDays(LocalTime(t, zone)[1] \div UnitsPerDay)
        f == fmtr.fields
        textual == Get(f, "month") \in {"long", "short"}
        gb == fmtr.locale = "en-GB"
        \* en-GB writes all-numeric dates as dd/MM/y
        dStyle == IF gb /\ ~textual /\ Get(f, "day") # Absent THEN "2-digit" ELSE Get(f, "day")
        mStyle == IF gb /\ ~textual /\ Get(f, "month") # Absent THEN "2-digit" ELSE Get(f, "month")
        Y == Numeric(Get(f, "year"), c.year)
        M == MonthText(mStyle, c.month)
        D == Numeric(dStyle, c.day)
    IN  CASE gb /\ textual -> Join(Join(D, " ", M), " ", Y)
          [] gb /\ ~textual -> Join(Join(D, "/", M), "/", Y)
          [] ~gb /\ textual -> Join(Join(M, " ", D), IF D = "" THEN " " ELSE ", ", Y)
          [] OTHER -> Join(Join(M, "/", D), "/", Y)

\* Intl.DateTimeFormat.prototype.format(date): an invalid date is a RangeError
DateTimeFormatFormat(fmtr, t, zone) ==
    IF t = NaN THEN Throw("RangeError") ELSE Return(FormatFields(fmtr, t, zone))

\* Date.prototype.toLocaleDateString(locale, options): "Invalid Date" for an
\* invalid date, else a one-shot formatter over ToDateTimeOptions(options, date, date)
ToLocaleDateString(t, locale, options, zone) ==
    IF t = NaN THEN Return("Invalid Date")
    ELSE IF locale \notin SupportedLocales \/ ~AcceptedOptions(options)
    THEN Throw("RangeError")
    ELSE Return(FormatFields([locale |-> locale,
                              fields |-> ToDateTimeOptions(options, "date", "date")],
                             t, zone))

\* { ...a, ...b }: own properties of a, then those of b over them
SpreadReversed(a, b) ==
    [k \in DOMAIN a \cup DOMAIN b |-> IF k \in DOMAIN a THEN a[k] ELSE b[k]]

Spread(a, b) ==
    [k \in DOMAIN a \cup DOMAIN b |-> IF k \in DOMAIN b THEN b[k] ELSE a[k]]

\* siteConfig.date of the imported site configuration: the configuration of the
\* specification's scenarios and two further well-formed ones; then the rejected
\* ones: an ill-formed locale tag, an option value the formatter rejects, and a
\* configuration object without its date member
SiteConfigs ==
    { [present |-> TRUE, locale |-> "en-US",
       options |-> ("year" :> "numeric") @@ ("month" :> "long") @@ ("day" :> "numeric")],
      [present |-> TRUE, locale |-> "en-GB",
       options |-> ("day" :> "numeric") @@ ("month" :> "short") @@ ("year" :> "numeric")],
      [present |-> TRUE, locale |-> "en-US", options |-> EmptyOptions],
      [present |-> TRUE, locale |-> "en_US",
       options |-> ("year" :> "numeric") @@ ("month" :> "long") @@ ("day" :> "numeric")],
      [present |-> TRUE, locale |-> "en-US",
       options |-> ("year" :> "numeric") @@ ("month" :> "full") @@ ("day" :> "numeric")],
      [present |-> FALSE, locale |-> Absent, options |-> EmptyOptions] }

\* the instants offered as dates: 2024-04-23T00:00:00.000Z, then steps of 252 days
\* 23 h 30 min and 1 ms (the second one is 2024-12-31T23:30:00.001Z)
Instant(i) ==
    MsAdd(MsOfDays(DaysFromCivil(2024, 4, 23)),
          Ms((i - 1) * 252 * UnitsPerDay, (i - 1) * (MakeTime(23, 30, 0, 1))))

\* the date arguments: each instant as a number and as an ECMAScript-format string;
\* the first instant also as a Date and in the other string syntaxes; the invalid ones
Inputs(zone) ==
    UNION { { NumberInput(Instant(i)), StringInput(Instant(i), "utc", 0) } :
            i \in 1..MaxInstants }
    \cup { DateInput(Instant(1)), StringInput(Instant(1), "offset", 330),
           StringInput(Instant(1), "local", zone), StringInput(Instant(1), "basic", 0) }
    \cup {NumberNaN, DateInput(NaN), StringText}

\* the same, tabulated per time zone
InputsIn == [zone \in TimeZones |-> Inputs(zone)]

\* the options argument: omitted, or one of these maps
NotGiven == [given |-> FALSE, map |-> EmptyOptions]
Given(o) == [given |-> TRUE, map |-> o]
Overrides ==
    { EmptyOptions,
      ("month" :> "short"),
      ("year" :> "2-digit") @@ ("day" :> Absent) }

NoFormatter == [locale |-> "", fields |-> EmptyOptions]
NoCall ==
    [called |-> FALSE, date |-> NumberNaN, options |-> NotGiven, optionsAfter |-> NotGiven,
     path |-> "", ret |-> Return(""), built |-> 0]

\* the callers, their arguments, and the frame of a caller that is not in a call
Callers == 1..MaxCallers
CallerDates == {NumberInput(Instant(1)), NumberNaN}
CallerOptions == {NotGiven} \cup {Given(o) : o \in Overrides \ {EmptyOptions}}
NoConfig == [present |-> FALSE, locale |-> Absent, options |-> EmptyOptions]
NoFrame ==
    [pc |-> "idle", date |-> NumberNaN, options |-> NotGiven, cfg |-> NoConfig,
     path |-> "", t |-> NaN, locale |-> "", merged |-> EmptyOptions, ret |-> Return("")]

(***************************************************************************)
(* Initial state: site-config has been evaluated, date.ts not yet.         *)
(***************************************************************************)
Init ==
    /\ tz \in TimeZones
    /\ lenientParse \in BOOLEAN
    /\ siteConfig \in SiteConfigs
    /\ moduleState = "unloaded"
    /\ dateFormat = NoFormatter
    /\ constructions = 0
    /\ lastCall = NoCall
    /\ probe = NoCall
    /\ now = NewDateLocal(2025, 8, 28, tz)
    /\ s1 = NoSample
    /\ s2 = NoSample
    /\ frames = [c \in Callers |-> NoFrame]

\* line 3: reading siteConfig.date.locale of a configuration without date is a
\* TypeError; else the constructor's outcome
NewDefaultFormatter(cfg) ==
    IF ~cfg.present THEN Throw("TypeError")
    ELSE NewDateTimeFormat(cfg.locale, cfg.options)

\* a plausible slip: the construction wrapped in try/catch, falling back to a
\* formatter for en-US
ModuleLoadCatching ==
    /\ moduleState = "unloaded"
    /\ LET r == NewDefaultFormatter(siteConfig)
       IN  /\ moduleState' = "loaded"
           /\ dateFormat' = IF r.type = "throw"
                            THEN NewDateTimeFormat("en-US", EmptyOptions).value
                            ELSE r.value
           /\ constructions' = constructions + 1
    /\ UNCHANGED <<frames, tz, lenientParse, siteConfig, lastCall, probe, now, s1, s2>>

\* evaluation of date.ts: const dateFormat = new Intl.DateTimeFormat(...); a throw
\* on that line ends the evaluation with that error and the module never loads
ModuleLoad ==
    /\ moduleState = "unloaded"
    /\ LET r == NewDefaultFormatter(siteConfig)
       IN  IF r.type = "throw"
           THEN /\ moduleState' = r.value
                /\ UNCHANGED <<dateFormat, constructions>>
           ELSE /\ moduleState' = "loaded"
                /\ dateFormat' = r.value
                /\ constructions' = constructions + 1
    /\ UNCHANGED <<frames, tz, lenientParse, siteConfig, lastCall, probe, now, s1, s2>>

\* what the callers observe: the latest call, and the first call ever made
Observe(date, options, optionsAfter, path, ret, built) ==
    /\ lastCall' = [called |-> TRUE, date |-> date, options |-> options,
                    optionsAfter |-> optionsAfter, path |-> path, ret |-> ret,
                    built |-> built]
    /\ probe' = IF probe.called THEN probe ELSE lastCall'

\* a plausible slip: Object.assign(siteConfig.date.options, options) as the merge
getFormattedDateAssign(date, options) ==
    /\ moduleState = "loaded"
    /\ LET t == NewDate(date, tz, lenientParse)
           merged == Spread(siteConfig.options, options.map)
       IN  IF options.given
           THEN /\ Observe(date, options, options, "override",
                           ToLocaleDateString(t, siteConfig.locale, merged, tz),
                           IF t = NaN THEN 0 ELSE 1)
                /\ siteConfig' = [siteConfig EXCEPT !.options = merged]
           ELSE /\ Observe(date, options, options, "default",
                           DateTimeFormatFormat(dateFormat, t, tz), 0)
                /\ UNCHANGED siteConfig
    /\ UNCHANGED <<frames, tz, lenientParse, moduleState, dateFormat, constructions, now, s1, s2>>

\* a plausible slip: the override path stores its formatter in the module variable
getFormattedDateCaching(date, options) ==
    /\ moduleState = "loaded"
    /\ LET t == NewDate(date, tz, lenientParse)
           merged == Spread(siteConfig.options, options.map)
       IN  IF options.given
           THEN /\ Observe(date, options, options, "override",
                           ToLocaleDateString(t, siteConfig.locale, merged, tz), 1)
                /\ dateFormat' = NewDateTimeFormat(siteConfig.locale, merged).value
                /\ constructions' = constructions + 1
           ELSE /\ Observe(date, options, options, "default",
                           DateTimeFormatFormat(dateFormat, t, tz), 0)
                /\ UNCHANGED <<dateFormat, constructions>>
    /\ UNCHANGED <<frames, tz, lenientParse, siteConfig, moduleState, now, s1, s2>>

\* a plausible slip: an invalid date is answered with an empty string
getFormattedDateGuarded(date, options) ==
    /\ moduleState = "loaded"
    /\ LET t == NewDate(date, tz, lenientParse)
           merged == Spread(siteConfig.options, options.map)
       IN  IF t = NaN
           THEN Observe(date, options, options,
                        IF options.given THEN "override" ELSE "default", Return(""), 0)
           ELSE IF options.given
           THEN Observe(date, options, options, "override",
                        ToLocaleDateString(t, siteConfig.locale, merged, tz), 1)
           ELSE Observe(date, options, options, "default",
                        DateTimeFormatFormat(dateFormat, t, tz), 0)
    /\ UNCHANGED <<frames, tz, lenientParse, siteConfig, moduleState, dateFormat, constructions,
                   now, s1, s2>>

\* a plausible slip: the default path hands date to the formatter as it is, so it
\* is read by ToNumber, for which no date string is a number
getFormattedDateRaw(date, options) ==
    /\ moduleState = "loaded"
    /\ LET t == NewDate(date, tz, lenientParse)
           raw == IF date.kind = "string" THEN NaN ELSE t
       IN  IF options.given
           THEN Observe(date, options, options, "override",
                        ToLocaleDateString(t, siteConfig.locale,
                                           Spread(siteConfig.options, options.map), tz),
                        IF t = NaN THEN 0 ELSE 1)
           ELSE Observe(date, options, options, "default",
                        DateTimeFormatFormat(dateFormat, raw, tz), 0)
    /\ UNCHANGED <<frames, tz, lenientParse, siteConfig, moduleState, dateFormat, constructions,
                   now, s1, s2>>

\* a plausible slip: the test is on the options having keys, so that an empty map
\* takes the default path
getFormattedDateNonEmpty(date, options) ==
    /\ moduleState = "loaded"
    /\ LET t == NewDate(date, tz, lenientParse)
       IN  IF options.given /\ DOMAIN options.map # {}
           THEN Observe(date, options, options, "override",
                        ToLocaleDateString(t, siteConfig.locale,
                                           Spread(siteConfig.options, options.map), tz),
                        IF t = NaN THEN 0 ELSE 1)
           ELSE Observe(date, options, options, "default",
                        DateTimeFormatFormat(dateFormat, t, tz), 0)
    /\ UNCHANGED <<frames, tz, lenientParse, siteConfig, moduleState, dateFormat, constructions,
                   now, s1, s2>>

\* getFormattedDate(date, options): with options, the one-shot toLocaleDateString
\* over the spread of the default and the given options (which builds its own
\* formatter once the date is valid); without, the module's dateFormat
getFormattedDate(date, options) ==
    /\ moduleState = "loaded"
    /\ LET t == NewDate(date, tz, lenientParse)
       IN  IF options.given
           THEN Observe(date, options, options, "override",
                        ToLocaleDateString(t, siteConfig.locale,
                                           Spread(siteConfig.options, options.map), tz),
                        IF t = NaN THEN 0 ELSE 1)
           ELSE Observe(date, options, options, "default",
                        DateTimeFormatFormat(dateFormat, t, tz), 0)
    /\ UNCHANGED <<frames, tz, lenientParse, siteConfig, moduleState, dateFormat, constructions,
                   now, s1, s2>>

\* a call without the options argument
FormatDefault == \E d \in InputsIn[tz] : getFormattedDate(d, NotGiven)

\* a call with an options argument
FormatOverride == \E d \in InputsIn[tz], o \in Overrides : getFormattedDate(d, Given(o))

Next == ModuleLoad \/ FormatDefault \/ FormatOverride

Spec == Init /\ [][Next]_vars

\* the wall clock moves (it may also be set back)
Tick ==
    /\ \E t \in ClockValuesIn[tz] \ {now} : now' = t
    /\ UNCHANGED <<frames, tz, lenientParse, siteConfig, moduleState, dateFormat,
                   constructions, lastCall, probe, s1, s2>>

\* a caller samples getAge(); it may keep the sample it had as the earlier one
GetAge ==
    /\ moduleState = "loaded"
    /\ s2' = [taken |-> TRUE, t |-> now, age |-> getAge(now, tz)]
    /\ s1' \in {s1, s2}
    /\ UNCHANGED <<frames, tz, lenientParse, siteConfig, moduleState, dateFormat,
                   constructions, lastCall, probe, now>>

NextAge == ModuleLoad \/ Tick \/ GetAge

\* the wall clock reaches the next midnight around an anniversary; before any
\* sample is taken it may be set back to the day before the first anniversary
TickAnniversary ==
    /\ \/ \E t \in AnniversaryAfterIn[tz][now] : now' = t
       \/ /\ ~s2.taken
          /\ now' = NewDateLocal(2004, 8, 28, tz)
          /\ now' # now
    /\ UNCHANGED <<frames, tz, lenientParse, siteConfig, moduleState, dateFormat,
                   constructions, lastCall, probe, s1, s2>>

NextAnniversary == ModuleLoad \/ TickAnniversary \/ GetAge

SpecAnniversary == Init /\ [][NextAnniversary]_vars

SpecAge == Init /\ [][NextAge]_vars

(***************************************************************************)
(* getFormattedDate step by step, with several callers in progress.        *)
(***************************************************************************)
\* caller c enters getFormattedDate(date, options); cfg remembers the configuration
\* the call started under
Call(c) ==
    /\ moduleState = "loaded"
    /\ frames[c].pc = "idle"
    /\ \E d \in CallerDates, o \in CallerOptions :
        frames' = [frames EXCEPT ![c] =
                      [NoFrame EXCEPT !.pc = "test", !.date = d, !.options = o,
                                      !.cfg = siteConfig]]
    /\ UNCHANGED <<tz, lenientParse, siteConfig, moduleState, dateFormat, constructions,
                   lastCall, probe, now, s1, s2>>

\* line 9: typeof options !== "undefined"
TestOptions(c) ==
    /\ frames[c].pc = "test"
    /\ frames' = [frames EXCEPT ![c].pc = "date",
                                ![c].path = IF frames[c].options.given
                                            THEN "override" ELSE "default"]
    /\ UNCHANGED <<tz, lenientParse, siteConfig, moduleState, dateFormat, constructions,
                   lastCall, probe, now, s1, s2>>

\* lines 10 and 16: new Date(date)
ConstructDate(c) ==
    /\ frames[c].pc = "date"
    /\ frames' = [frames EXCEPT ![c].pc = IF frames[c].path = "override"
                                          THEN "merge" ELSE "format",
                                ![c].t = NewDate(frames[c].date, tz, lenientParse)]
    /\ UNCHANGED <<tz, lenientParse, siteConfig, moduleState, dateFormat, constructions,
                   lastCall, probe, now, s1, s2>>

\* a plausible slip: Object.assign(siteConfig.date.options, options) as the merge
MergeOptionsAssign(c) ==
    /\ frames[c].pc = "merge"
    /\ LET merged == Spread(siteConfig.options, frames[c].options.map)
       IN  /\ frames' = [frames EXCEPT ![c].pc = "format",
                                       ![c].locale = siteConfig.locale,
                                       ![c].merged = merged]
           /\ siteConfig' = [siteConfig EXCEPT !.options = merged]
    /\ UNCHANGED <<tz, lenientParse, moduleState, dateFormat, constructions,
                   lastCall, probe, now, s1, s2>>

\* lines 10-13: the arguments of toLocaleDateString, siteConfig.date.locale and a
\* fresh object spread from siteConfig.date.options and options
MergeOptions(c) ==
    /\ frames[c].pc = "merge"
    /\ frames' = [frames EXCEPT ![c].pc = "format",
                                ![c].locale = siteConfig.locale,
                                ![c].merged = Spread(siteConfig.options,
                                                     frames[c].options.map)]
    /\ UNCHANGED <<tz, lenientParse, siteConfig, moduleState, dateFormat, constructions,
                   lastCall, probe, now, s1, s2>>

\* line 10: toLocaleDateString on the call's own arguments; line 16: format of the
\* module's dateFormat
FormatDate(c) ==
    /\ frames[c].pc = "format"
    /\ frames' = [frames EXCEPT ![c].pc = "done",
                                ![c].ret =
                                    IF frames[c].path = "override"
                                    THEN ToLocaleDateString(frames[c].t, frames[c].locale,
                                                            frames[c].merged, tz)
                                    ELSE DateTimeFormatFormat(dateFormat, frames[c].t, tz)]
    /\ UNCHANGED <<tz, lenientParse, siteConfig, moduleState, dateFormat, constructions,
                   lastCall, probe, now, s1, s2>>

\* the caller has its outcome and leaves
Leave(c) ==
    /\ frames[c].pc = "done"
    /\ frames' = [frames EXCEPT ![c] = NoFrame]
    /\ UNCHANGED <<tz, lenientParse, siteConfig, moduleState, dateFormat, constructions,
                   lastCall, probe, now, s1, s2>>

CallerStep(c) ==
    \/ Call(c)
    \/ TestOptions(c)
    \/ ConstructDate(c)
    \/ MergeOptions(c)
    \/ FormatDate(c)
    \/ Leave(c)

NextCallers == ModuleLoad \/ \E c \in Callers : CallerStep(c)

SpecCallers == Init /\ [][NextCallers]_vars

(***************************************************************************)
(* Properties of getFormattedDate, checked under Spec.                     *)
(***************************************************************************)
\* the time value the latest call's date argument constructs on this host
LastTime == NewDate(lastCall.date, tz, lenientParse)

\* shallow merge: every key of o with o's value, every other key of def with def's
ShallowMerge(def, o) ==
    [k \in DOMAIN def \cup DOMAIN o |-> IF k \in DOMAIN o THEN o[k] ELSE def[k]]

\* C1: a call with an override map o returns what toLocaleDateString yields for the
\* date with locale siteConfig.date.locale and the shallow merge of
\* siteConfig.date.options and o, o's keys winning; o never changes the locale.
C1_OverrideFormatsMerged ==
    (lastCall.called /\ lastCall.options.given) =>
        lastCall.ret = ToLocaleDateString(LastTime, siteConfig.locale,
                           ShallowMerge(siteConfig.options, lastCall.options.map), tz)

\* the specification's scenario: "2024-04-23T00:00:00Z" with {month: "short"} under
\* en-US and {year, month: "long", day} gives "Apr 23, 2024"
C1_Witness ==
    /\ lastCall.called
    /\ lastCall.date = StringInput(Instant(1), "utc", 0)
    /\ lastCall.options = Given(("month" :> "short"))
    /\ siteConfig.locale = "en-US"
    /\ Get(siteConfig.options, "month") = "long"
    /\ lastCall.ret = Return("Apr 23, 2024")

\* C2: a call with an epoch-millisecond number and no override returns what a
\* formatter built from exactly siteConfig.date.locale and siteConfig.date.options
\* yields, whatever calls came before.
C2_DefaultFormatsDirect ==
    (lastCall.called /\ ~lastCall.options.given /\ lastCall.date.kind = "number") =>
        lastCall.ret =
            DateTimeFormatFormat(
                NewDateTimeFormat(siteConfig.locale, siteConfig.options).value,
                LastTime, tz)

\* a default call on 1713830400000 after a first call that passed an override
C2_Witness ==
    /\ probe.called /\ probe.options.given /\ probe.options.map # EmptyOptions
    /\ lastCall.called /\ ~lastCall.options.given
    /\ lastCall.date = NumberInput(Instant(1))
    /\ siteConfig.locale = "en-US" /\ tz = 120
    /\ lastCall.ret = Return("April 23, 2024")

\* C5: two calls with identical arguments return the identical outcome, whatever
\* calls were made between them.
C5_SameArgsSameResult ==
    (probe.called /\ lastCall.called /\ probe.date = lastCall.date
        /\ probe.options = lastCall.options) =>
        probe.ret = lastCall.ret

C5_Witness ==
    /\ probe.called /\ lastCall.called
    /\ probe.date = lastCall.date /\ probe.options = lastCall.options
    /\ lastCall.options.given /\ lastCall.options.map # EmptyOptions
    /\ lastCall.ret.type = "return" /\ lastCall.ret.value # "Invalid Date"

\* C6: the default formatter is constructed once, by the module's evaluation and
\* before any call; no call constructs it again, and a call without override
\* constructs no formatter at all.
C6_DefaultFormatterBuiltOnce ==
    /\ lastCall.called => moduleState = "loaded"
    /\ moduleState = "unloaded" => constructions = 0
    /\ moduleState = "loaded" =>
        /\ constructions = 1
        /\ dateFormat = NewDateTimeFormat(siteConfig.locale, siteConfig.options).value
    /\ (lastCall.called /\ lastCall.path = "default") => lastCall.built = 0

C6_Witness ==
    /\ probe.called /\ probe.path = "override" /\ probe.built = 1
    /\ lastCall.called /\ lastCall.path = "default" /\ lastCall.ret.type = "return"
    /\ constructions = 1

\* C7: no call, on either path, changes siteConfig.date, the default formatter or
\* the caller's override map.
C7_CallsChangeNothing ==
    [][moduleState = "loaded" =>
        /\ siteConfig' = siteConfig
        /\ dateFormat' = dateFormat
        /\ lastCall'.optionsAfter = lastCall'.options]_vars

\* after an override of month, the default options still hold their own month
C7_Witness ==
    /\ lastCall.called /\ lastCall.path = "override"
    /\ Get(lastCall.options.map, "month") = "short"
    /\ Get(siteConfig.options, "month") = "long"
    /\ Get(dateFormat.fields, "month") = "long"
    /\ lastCall.optionsAfter = lastCall.options

\* calls whose date arguments stand for the same valid instant, with the same options
SameInstantCalls ==
    /\ probe.called /\ lastCall.called
    /\ probe.date.denotes = lastCall.date.denotes
    /\ lastCall.date.denotes # NaN
    /\ probe.options = lastCall.options

\* a string in the ECMAScript date-time string format, or no string at all
EcmaScriptFormat(d) == d.kind = "string" => d.fmt \in {"utc", "offset", "local"}

\* C8 as stated: a number, an ISO 8601 string and a Date that stand for the same
\* instant give the same output, with or without an override map.
C8_AnyIsoStringSameOutput == SameInstantCalls => probe.ret = lastCall.ret

\* C8 as amended: the same, for ISO 8601 strings that are in the ECMAScript
\* date-time string format (YYYY-MM-DDTHH:mm:ss.sss with Z, an offset or none).
C8_EcmaFormatSameOutput ==
    (SameInstantCalls /\ EcmaScriptFormat(probe.date) /\ EcmaScriptFormat(lastCall.date)) =>
        probe.ret = lastCall.ret

\* 1713830400000 and "2024-04-23T00:00:00.000Z" formatted alike
C8_Witness ==
    /\ SameInstantCalls
    /\ probe.date = NumberInput(Instant(1))
    /\ lastCall.date = StringInput(Instant(1), "utc", 0)
    /\ lastCall.ret.type = "return"
    /\ probe.ret = lastCall.ret

\* C9: for an invalid date the caller sees what the primitive of the path yields:
\* the RangeError of dateFormat.format, or toLocaleDateString's "Invalid Date".
C9_InvalidDatePropagates ==
    (lastCall.called /\ LastTime = NaN) =>
        /\ ~lastCall.options.given =>
            /\ lastCall.ret = DateTimeFormatFormat(dateFormat, NaN, tz)
            /\ lastCall.ret = Throw("RangeError")
        /\ lastCall.options.given =>
            /\ lastCall.ret = ToLocaleDateString(NaN, siteConfig.locale,
                                  Spread(siteConfig.options, lastCall.options.map), tz)
            /\ lastCall.ret = Return("Invalid Date")

\* both outcomes seen: the first call threw on a text that is no date, the latest
\* returned "Invalid Date" for an invalid Date
C9_Witness ==
    /\ probe.called /\ probe.date = StringText /\ probe.ret = Throw("RangeError")
    /\ lastCall.called /\ lastCall.date = DateInput(NaN)
    /\ lastCall.ret = Return("Invalid Date")

(***************************************************************************)
(* Properties of getAge, checked under SpecAge.                            *)
(***************************************************************************)
\* the period boundaries that the sampled instants can lie between
PeriodIndexes == (0 - MaxPeriodsBack - 1)..(MaxPeriodsAhead + 22)

\* C3: for samples at t1 < t2, getAge at t1 <= getAge at t2, with a strict increase
\* exactly when some multiple of the period after the anchor lies in (t1, t2].
C3_AgeMonotone ==
    (s1.taken /\ s2.taken /\ MsLess(s1.t, s2.t)) =>
        /\ s1.age <= s2.age
        /\ (s1.age < s2.age) <=>
               \E k \in PeriodIndexes :
                   /\ MsLess(s1.t, PeriodBoundary(k, tz))
                   /\ MsLeq(PeriodBoundary(k, tz), s2.t)

\* one millisecond apart across the anchor itself: -1, then 0
C3_Witness ==
    /\ s1.taken /\ s2.taken
    /\ s2.t = birthday(tz)
    /\ s1.t = MsSub(birthday(tz), <<0, 1>>)
    /\ s1.age < s2.age

\* C4: 8036 days after the anchor (local midnight 2025-09-29) getAge is 22, and
\* 8035 days after it (2025-09-28) it is 21.
C4_AgeIn2025 ==
    s2.taken =>
        /\ s2.t = MsAdd(birthday(tz), MsOfDays(8036)) => s2.age = 22
        /\ s2.t = MsAdd(birthday(tz), MsOfDays(8035)) => s2.age = 21

C4_Witness ==
    /\ s1.taken /\ s1.t = NewDateLocal(2025, 8, 28, tz)
    /\ s1.t = MsAdd(birthday(tz), MsOfDays(8035)) /\ s1.age = 21
    /\ s2.taken /\ s2.t = NewDateLocal(2025, 8, 29, tz)
    /\ s2.t = MsAdd(birthday(tz), MsOfDays(8036)) /\ s2.age = 22

\* C10: getAge is an integer, >= 0 when the anchor is at or before now, < 0 when
\* the anchor is after now, and -1 when it is less than one period after now.
C10_AgeSign ==
    s2.taken =>
        /\ s2.age \in Int
        /\ MsLeq(birthday(tz), s2.t) => s2.age >= 0
        /\ MsLess(s2.t, birthday(tz)) => s2.age < 0
        /\ (MsLess(s2.t, birthday(tz)) /\ MsLess(PeriodBoundary(-1, tz), s2.t)) =>
               s2.age = -1

\* one millisecond before the anchor, and more than a period before it
C10_Witness ==
    /\ s2.taken /\ s2.t = MsSub(birthday(tz), <<0, 1>>) /\ s2.age = -1
    /\ s1.taken /\ MsLess(s1.t, PeriodBoundary(-1, tz)) /\ s1.age = -2

(***************************************************************************)
(* Startup, checked under Spec.                                            *)
(***************************************************************************)
\* the configuration is missing or is rejected by the formatting primitive
ConfigRejected ==
    \/ ~siteConfig.present
    \/ siteConfig.locale \notin SupportedLocales
    \/ ~AcceptedOptions(siteConfig.options)

\* C11: with a missing or rejected configuration the evaluation of the module ends
\* with the error of line 3 itself (the primitive's RangeError, or the TypeError of
\* reading the missing member), nothing is loaded, no formatter exists and no
\* getFormattedDate call ever runs; a configuration that is accepted never fails.
C11_BadConfigFailsAtLoad ==
    /\ ConfigRejected =>
        /\ moduleState \in {"unloaded", IF siteConfig.present THEN "RangeError" ELSE "TypeError"}
        /\ ~lastCall.called /\ ~probe.called
        /\ dateFormat = NoFormatter /\ constructions = 0
    /\ ~ConfigRejected => moduleState \in {"unloaded", "loaded"}

\* the evaluation has ended with the RangeError of an ill-formed locale tag
C11_Witness ==
    /\ siteConfig.locale = "en_US"
    /\ moduleState = "RangeError"
    /\ ~lastCall.called

(***************************************************************************)
(* The quotient of getAge, checked under SpecAge.                          *)
(***************************************************************************)
\* C13: getAge is floor((now - anchor) / 31556952000): the divisor is 365.2425 days
\* of 86400000 ms, and the result n is the number of whole periods elapsed,
\* n * period <= now - anchor < (n + 1) * period.
C13_AgeIsWholePeriods ==
    /\ MsPerUnit * UnitsPerDay = 86400000
    /\ YearUnits * (MsPerUnit \div 1000) = 31556952
    /\ 10000 * YearUnits = 3652425 * UnitsPerDay
    /\ s2.taken =>
        LET elapsed == MsSub(s2.t, birthday(tz))
        IN  /\ MsLeq(Ms(s2.age * YearUnits, 0), elapsed)
            /\ MsLess(elapsed, Ms((s2.age + 1) * YearUnits, 0))

\* one period and a half after the anchor: 1; a millisecond short of two: still 1
C13_Witness ==
    /\ s1.taken /\ s1.t = MsAdd(PeriodBoundary(1, tz), Ms(YearUnits \div 2, 0))
    /\ s1.age = 1
    /\ s2.taken /\ s2.t = MsSub(PeriodBoundary(2, tz), <<0, 1>>)
    /\ s2.age = 1

(***************************************************************************)
(* getAge on calendar anniversaries, checked under SpecAnniversary.        *)
(***************************************************************************)
\* C14: for every N in 1..MaxAnniversary, getAge sampled at local midnight of the
\* N-th calendar anniversary of 2003-09-29 is N, and sampled at local midnight of
\* the day before that anniversary is N - 1.
C14_AnniversaryAges ==
    s2.taken =>
        \A n \in 1..MaxAnniversary :
            /\ s2.t = NewDateLocal(2003 + n, 8, 29, tz) => s2.age = n
            /\ s2.t = NewDateLocal(2003 + n, 8, 28, tz) => s2.age = n - 1

(***************************************************************************)
(* The two paths of getFormattedDate, checked under Spec.                  *)
(***************************************************************************)
\* C15: the path depends only on whether options is given: the default path (the
\* module's dateFormat, no formatter built) is taken exactly when options is
\* undefined; every given options value, the empty map included, takes the override
\* path, whose result is toLocaleDateString's over the merged options with a
\* formatter of its own, the module's dateFormat being left as it was built.
C15_PathByOptionsPresence ==
    lastCall.called =>
        /\ lastCall.path \in {"default", "override"}
        /\ lastCall.path = "default" <=> ~lastCall.options.given
        /\ dateFormat = NewDefaultFormatter(siteConfig).value
        /\ lastCall.path = "default" =>
            /\ lastCall.ret = DateTimeFormatFormat(dateFormat, LastTime, tz)
            /\ lastCall.built = 0
        /\ lastCall.path = "override" =>
            /\ lastCall.ret =
                   ToLocaleDateString(LastTime, siteConfig.locale,
                       ShallowMerge(siteConfig.options, lastCall.options.map), tz)
            /\ lastCall.built = IF LastTime = NaN THEN 0 ELSE 1

\* an empty map after a call without options: the first took the default path, the
\* second the override path and built a formatter of its own
C15_Witness ==
    /\ probe.called /\ probe.options = NotGiven /\ probe.path = "default"
    /\ lastCall.called /\ lastCall.options = Given(EmptyOptions)
    /\ lastCall.path = "override" /\ lastCall.built = 1

\* C16: an empty override is neutral: for every date, valid or invalid,
\* getFormattedDate(date, {}) has the same outcome (same string or same error) as
\* getFormattedDate(date).
C16_EmptyOverrideNeutral ==
    ( /\ probe.called /\ probe.options = NotGiven
      /\ lastCall.called /\ lastCall.options = Given(EmptyOptions)
      /\ probe.date = lastCall.date ) =>
        probe.ret = lastCall.ret

(***************************************************************************)
(* Callers in progress together, checked under SpecCallers.                *)
(***************************************************************************)
\* what a call with these arguments returns when it runs alone under configuration
\* cfg
RunAlone(date, options, cfg) ==
    LET t == NewDate(date, tz, lenientParse)
    IN  IF options.given
        THEN ToLocaleDateString(t, cfg.locale, ShallowMerge(cfg.options, options.map), tz)
        ELSE DateTimeFormatFormat(NewDefaultFormatter(cfg).value, t, tz)

\* C12: however the steps of the callers interleave, a finished call holds exactly
\* the outcome it would have alone; what a call merged is its own options over the
\* configuration, never another call's; and the configuration and the module's
\* dateFormat are the ones every call in progress started under.
C12_CallersDoNotInterfere ==
    \A c \in Callers :
        frames[c].pc # "idle" =>
            /\ frames[c].cfg = siteConfig
            /\ dateFormat = NewDefaultFormatter(frames[c].cfg).value
            /\ constructions = 1
            /\ frames[c].pc \in {"format", "done"} /\ frames[c].path = "override" =>
                frames[c].merged =
                    ShallowMerge(frames[c].cfg.options, frames[c].options.map)
            /\ frames[c].pc = "done" =>
                frames[c].ret =
                    RunAlone(frames[c].date, frames[c].options, frames[c].cfg)

\* two override calls with different options and a default call's dates in progress
\* together: caller 1 finished while caller 2 holds its own merged options
C12_Witness ==
    /\ frames[1].pc = "done"
    /\ frames[1].options = Given(("month" :> "short"))
    /\ frames[1].ret.type = "return"
    /\ frames[1].date = NumberInput(Instant(1))
    /\ frames[2].pc = "format"
    /\ frames[2].options = Given(("year" :> "2-digit") @@ ("day" :> Absent))
    /\ frames[2].merged # frames[1].merged

====
